---- MODULE Spec2Model ----
(***************************************************************************)
(* The UTXO ledger engine of src/api/asset/utxodb.go: the persisted utxos  *)
(* table, the units of work (database transactions) that requests run in,  *)
(* and the operations of sqlUTXODB that write it: ApplyTx and              *)
(* SaveReservations.  Each request is one process; a statement executes    *)
(* atomically against the rows it can see (READ COMMITTED: the committed   *)
(* table plus the request's own pending writes) and waits while a row it   *)
(* touches is locked by another open unit of work.                         *)
(***************************************************************************)
EXTENDS Integers, Sequences, FiniteSets, TLC

\* Outputs (and receiver hints) a transaction carries at most.
MaxOuts == 2
\* Reservation expiry instants are 1..MaxTime.
MaxTime == 2
\* Operations called in one run.
MaxOps == 3

\* Request handlers.  Each runs one operation at a time, in at most one unit
\* of work.
Procs == {"r1", "r2"}
\* Transaction hashes.
Hashes == {"h1", "h2", "h3"}

\* reserved_until of a row that was never reserved (the column's default).
Unreserved == 0

\* 0x7fffffff, the mask of toKeyIndex.
LowMask == 2147483647

\* Unsigned 32-bit values are pairs <<high, low>> of 16-bit limbs, signed
\* 64-bit values are tuples of four 16-bit limbs, most significant first.
Limb == 65536
HalfLimb == 32768

\* The uint32 of a natural number below 2^31.
U32(n) == <<n \div Limb, n % Limb>>

----------------------------------------------------------------------------
(* Values *)

\* bc.Hash.String(): the textual form of a hash stored in column txid.
HashString(h) == <<"hex", h>>

\* bc.ParseHash: the hash of a stored txid.
ParseHash(s) == s[2]

\* Locking scripts: pay-to-address scripts of two addresses, and one that is
\* no pay-to-address pattern.
ScriptA == <<"pay", "addrA">>
ScriptB == <<"pay", "addrB">>
ScriptBad == <<"junk", "">>

\* txscript.PkScriptAddr: the address a script pays, or an error.
PkScriptAddr(script) ==
  IF script[1] = "pay" THEN [err |-> FALSE, addr |-> script[2]]
  ELSE [err |-> TRUE, addr |-> ""]

\* bc.TxOutput values.
OutReg == [Script |-> ScriptA, AssetID |-> "a1", Value |-> 5]
OutUnreg == [Script |-> ScriptB, AssetID |-> "a2", Value |-> 7]
OutBad == [Script |-> ScriptBad, AssetID |-> "a1", Value |-> 5]
TxOuts == {OutReg, OutUnreg, OutBad}

\* utxodb.Receiver values; NilRec is the nil pointer.
NilRec ==
  [isNil |-> TRUE, ManagerNodeID |-> "", AccountID |-> "",
   AddrIndex |-> <<U32(0), U32(0)>>, IsChange |-> FALSE]
HintLocal ==
  [isNil |-> FALSE, ManagerNodeID |-> "mn1", AccountID |-> "acc1",
   AddrIndex |-> <<U32(0), U32(1)>>, IsChange |-> TRUE]
HintNoAccount ==
  [isNil |-> FALSE, ManagerNodeID |-> "mn2", AccountID |-> "",
   AddrIndex |-> <<U32(1), U32(0)>>, IsChange |-> FALSE]
Hints == {NilRec, HintLocal, HintNoAccount}

\* The addresses table (written only by address issuance, outside this code).
AddressRecords ==
  {[address |-> "addrA", account_id |-> "acc2", manager_node_id |-> "mn2",
    key_index |-> <<U32(1), U32(2)>>, is_change |-> FALSE]}

\* bc.Outpoint values.
Outpoint(h, i) == [Hash |-> h, Index |-> i]
Outpoints == {Outpoint(h, i) : h \in Hashes, i \in 0..(MaxOuts - 1)}

\* All sequences over S of length at most n.
SeqsUpTo(S, n) == UNION {[1..k -> S] : k \in 0..n}

\* The sequence of n copies of x.
Repeat(x, n) == [i \in 1..n |-> x]

\* The primary key (txid, index) of a row.
KeyOf(r) == <<r.txid, r.index>>
Keys(rows) == {KeyOf(r) : r \in rows}

----------------------------------------------------------------------------
(* Pure functions of utxodb.go *)

\* Bitwise and, or of two naturals.
RECURSIVE BitAnd(_, _)
BitAnd(a, b) ==
  IF a = 0 \/ b = 0 THEN 0
  ELSE 2 * BitAnd(a \div 2, b \div 2) + (IF a % 2 = 1 /\ b % 2 = 1 THEN 1 ELSE 0)
RECURSIVE BitOr(_, _)
BitOr(a, b) ==
  IF a = 0 THEN b
  ELSE IF b = 0 THEN a
  ELSE 2 * BitOr(a \div 2, b \div 2) + (IF a % 2 = 1 \/ b % 2 = 1 THEN 1 ELSE 0)

\* int64(u) of a uint32 u: zero extension.
Int64(u) == <<0, 0, u[1], u[2]>>

\* u & m of two uint32, and x | y of two int64.
And32(u, m) == <<BitAnd(u[1], m[1]), BitAnd(u[2], m[2])>>
Or64(x, y) == [k \in 1..4 |-> BitOr(x[k], y[k])]

\* x << 31 of an int64: the bits shifted beyond bit 63 are lost.
Shl31(x) ==
  <<(x[3] \div 2) + (x[2] % 2) * HalfLimb,
    (x[4] \div 2) + (x[3] % 2) * HalfLimb,
    (x[4] % 2) * HalfLimb,
    0>>

\* toKeyIndex: int64(i[0])<<31 | int64(i[1]&0x7fffffff).
toKeyIndexSwapped(i) ==
  Or64(Shl31(Int64(i[2])), Int64(And32(i[1], U32(LowMask))))
toKeyIndexUnmasked(i) ==
  Or64(Shl31(Int64(i[1])), Int64(i[2]))
toKeyIndex(i) ==
  Or64(Shl31(Int64(i[1])), Int64(And32(i[2], U32(LowMask))))

\* The store's key_index(bigint): the pair packed in a key index, its high
\* part value >> 31 and its low part value & 0x7fffffff.
KeyIndexPair(x) ==
  << <<((x[1] * 2) % Limb) + (x[2] \div HalfLimb),
       ((x[2] * 2) % Limb) + (x[3] \div HalfLimb)>>,
     <<x[3] % HalfLimb, x[4]>> >>

\* The appdb.UTXO that initAddrInfoFromRecs builds for output i0 (0-based).
InitUTXO(hash, i0, txo, rec) ==
  [Hash |-> hash, Index |-> i0,
   Addr |-> PkScriptAddr(txo.Script).addr,
   AssetID |-> txo.AssetID, Amount |-> txo.Value,
   ManagerNodeID |-> IF rec.isNil THEN "" ELSE rec.ManagerNodeID,
   AccountID |-> IF rec.isNil THEN "" ELSE rec.AccountID,
   AddrIndex |-> IF rec.isNil THEN <<U32(0), U32(0)>> ELSE rec.AddrIndex,
   IsChange |-> IF rec.isNil THEN FALSE ELSE rec.IsChange]

\* initAddrInfoFromRecs (case 1): fails on the first bad script.
initAddrInfoFromRecsSkipBad(hash, txouts, recs) ==
  [err |-> "",
   insert |-> [i \in 1..Len(txouts) |->
                 InitUTXO(hash, i - 1, txouts[i], recs[i])]]
initAddrInfoFromRecs(hash, txouts, recs) ==
  IF \E i \in 1..Len(txouts) : PkScriptAddr(txouts[i].Script).err
  THEN [err |-> "bad pk script", insert |-> <<>>]
  ELSE [err |-> "",
        insert |-> [i \in 1..Len(txouts) |->
                      InitUTXO(hash, i - 1, txouts[i], recs[i])]]

\* loadAddrInfoFromDB (case 2): every utxo with an empty account ID whose
\* address has a record takes the record's receiver info.
loadAddrInfoFromDBAlways(addrs, us) ==
  [i \in 1..Len(us) |->
     IF \E a \in addrs : a.address = us[i].Addr
     THEN LET a == CHOOSE a \in addrs : a.address = us[i].Addr
          IN [us[i] EXCEPT !.ManagerNodeID = a.manager_node_id,
                           !.AccountID = a.account_id,
                           !.IsChange = a.is_change,
                           !.AddrIndex = a.key_index]
     ELSE us[i]]
loadAddrInfoFromDBFirstOnly(addrs, us) ==
  [i \in 1..Len(us) |->
     IF /\ us[i].AccountID = "" /\ \E a \in addrs : a.address = us[i].Addr
        /\ \A j \in 1..(i - 1) : us[j].Addr # us[i].Addr
     THEN LET a == CHOOSE a \in addrs : a.address = us[i].Addr
          IN [us[i] EXCEPT !.ManagerNodeID = a.manager_node_id,
                           !.AccountID = a.account_id,
                           !.IsChange = a.is_change,
                           !.AddrIndex = a.key_index]
     ELSE us[i]]
loadAddrInfoFromDB(addrs, us) ==
  [i \in 1..Len(us) |->
     IF us[i].AccountID = "" /\ \E a \in addrs : a.address = us[i].Addr
     THEN LET a == CHOOSE a \in addrs : a.address = us[i].Addr
          IN [us[i] EXCEPT !.ManagerNodeID = a.manager_node_id,
                           !.AccountID = a.account_id,
                           !.IsChange = a.is_change,
                           !.AddrIndex = a.key_index]
     ELSE us[i]]

\* The length check of insertUTXOs.
LengthMismatchLoose(txouts, recs) == Len(txouts) > Len(recs)
LengthMismatch(txouts, recs) == Len(txouts) # Len(recs)

\* The row that insertUTXOs's INSERT writes for the i-th (1-based) utxo:
\* index is the position, reserved_until takes the column default.
InsertRow(hash, i, u) ==
  [txid |-> HashString(hash), index |-> i - 1,
   asset_id |-> u.AssetID, amount |-> u.Amount,
   account_id |-> u.AccountID, manager_node_id |-> u.ManagerNodeID,
   addr_index |-> toKeyIndex(u.AddrIndex), reserved_until |-> Unreserved]
InsertRows(hash, us) == {InsertRow(hash, i, us[i]) : i \in 1..Len(us)}

\* (SELECT unnest($1::text[]), unnest($2::...[])): two arrays of one length
\* unnest in step, giving the pairs (txid[i], index[i]).
UnnestPairsCross(txids, indexes) ==
  {<<txids[i], indexes[j]>> : i \in 1..Len(txids), j \in 1..Len(indexes)}
UnnestPairs(txids, indexes) ==
  {<<txids[i], indexes[i]>> : i \in 1..Len(txids)}

\* The txid and index arrays built from a list of outpoints.
TxidArray(ops) == [i \in 1..Len(ops) |-> HashString(ops[i].Hash)]
IndexArray(ops) == [i \in 1..Len(ops) |-> ops[i].Index]

\* The utxodb.UTXO that deleteUTXOs scans from a RETURNING row.
DeletedUTXONoAccount(r) ==
  [AccountID |-> "", AssetID |-> r.asset_id,
   Hash |-> ParseHash(r.txid), Index |-> r.index]
DeletedUTXO(r) ==
  [AccountID |-> r.account_id, AssetID |-> r.asset_id,
   Hash |-> ParseHash(r.txid), Index |-> r.index]

\* localUTXOs of ApplyTx: the inserted utxos with a manager node.
LocalUTXOsAll(us) == us
LocalUTXOsByAccount(us) == SelectSeq(us, LAMBDA u : u.AccountID # "")
LocalUTXOs(us) == SelectSeq(us, LAMBDA u : u.ManagerNodeID # "")

\* pg.FromContext(ctx).(pg.Tx): whether the handle is a transaction.
IsPgTxUnchecked(h) == TRUE
IsPgTx(h) == h = "tx"

----------------------------------------------------------------------------
(* State *)

VARIABLES
  utxos,      \* the committed rows of table utxos
  addresses,  \* the rows of table addresses
  handle,     \* per request: "db" (no transaction) or "tx" (open unit of work)
  uow,        \* per request: the pending writes of its unit of work
  pc,         \* per request: where it is in its operation
  call,       \* per request: the operation's arguments, locals and snapshots
  result,     \* per request: what the operation returned
  act,        \* per request: what the activity collaborator was handed
  made,       \* per outpoint key: committed insertions (initial rows count)
  spent,      \* per outpoint key: committed ApplyTx calls reporting it deleted
  ops,        \* the operations called so far
  now         \* the current instant

vars ==
  <<utxos, addresses, handle, uow, pc, call, result, act, made, spent, ops,
    now>>

AllKeys == {<<HashString(o.Hash), o.Index>> : o \in Outpoints}

EmptyUow == [del |-> {}, ins |-> {}]

NoCall ==
  [op |-> "none", seq |-> 0, h |-> "db", hash |-> "", inputs |-> <<>>,
   outputs |-> <<>>, recs |-> <<>>, nOuts |-> 0, nRecs |-> 0,
   insUTXOs |-> <<>>, exp |-> 0, account |-> "", asset |-> "", at |-> 0,
   pre |-> {}, post |-> {}, end |-> {},
   fault |-> "none", outcome |-> "none"]

NoResult ==
  [returned |-> FALSE, err |-> "", deleted |-> {}, inserted |-> <<>>,
   utxos |-> <<>>]

NoActivity == [called |-> FALSE, ok |-> FALSE, utxos |-> <<>>, view |-> {}]

\* The rows a statement of request p sees when its handle is h.
ViewOf(p, h) ==
  IF h = "tx" THEN (utxos \ uow[p].del) \cup uow[p].ins ELSE utxos
View(p) == ViewOf(p, handle[p])

\* The keys locked by the open units of work of the other requests.
LockedByOthers(p) ==
  UNION {Keys(uow[q].del) \cup Keys(uow[q].ins) : q \in Procs \ {p}}

\* A statement's writes: into the unit of work, or (no transaction) committed
\* at once.
WriteRows(p, h, removed, added) ==
  IF h = "tx"
  THEN /\ uow' = [uow EXCEPT ![p] =
                    [del |-> @.del \cup (removed \cap utxos),
                     ins |-> (@.ins \ removed) \cup added]]
       /\ UNCHANGED utxos
  ELSE /\ utxos' = (utxos \ removed) \cup added
       /\ UNCHANGED uow

\* The primary key (txid, index) of table utxos: an INSERT of rows fails when
\* a key is already among the visible rows or occurs twice in the statement.
PrimaryKeyUnchecked(existing, rows) == FALSE
PrimaryKeyViolated(existing, rows) ==
  \/ Keys(rows) \cap Keys(existing) # {}
  \/ Cardinality(Keys(rows)) # Cardinality(rows)

\* insertUTXOs: the length check, cases 1 and 2, and the INSERT of rows stmt,
\* of which rows are written.  fault is the storage failure this call meets
\* ("none" for none).
insertUTXOs(addrs, view, hash, txouts, recs, fault) ==
  IF LengthMismatch(txouts, recs)
  THEN [err |-> "length mismatch", insert |-> <<>>, stmt |-> {}, rows |-> {}]
  ELSE LET a == initAddrInfoFromRecs(hash, txouts, recs)
       IN IF a.err # ""
          THEN [err |-> a.err, insert |-> <<>>, stmt |-> {}, rows |-> {}]
          ELSE IF fault = "select"
          THEN [err |-> "select", insert |-> <<>>, stmt |-> {}, rows |-> {}]
          ELSE LET us == loadAddrInfoFromDB(addrs, a.insert)
                   rows == InsertRows(hash, us)
               IN IF fault = "insert" \/ PrimaryKeyViolated(view, rows)
                  THEN [err |-> "insert", insert |-> us, stmt |-> rows,
                        rows |-> {}]
                  ELSE [err |-> "", insert |-> us, stmt |-> rows,
                        rows |-> rows]

----------------------------------------------------------------------------
(* Inputs *)

\* A transaction with its receiver hints, as handed to ApplyTx.
TxArg(hash, inputs, outputs, recs) ==
  [hash |-> hash, inputs |-> inputs, outputs |-> outputs, recs |-> recs]

\* Transactions of every output and hint shape, spending nothing or the
\* first output of h1.
TxsByOutputs ==
  {TxArg(h, i, o, r) :
     h \in Hashes, i \in {<<>>, <<Outpoint("h1", 0)>>},
     o \in SeqsUpTo(TxOuts, MaxOuts), r \in SeqsUpTo(Hints, MaxOuts)}

\* Transactions of every input list of at most two outpoints (present or
\* absent, of another transaction or of the transaction itself), paying n
\* outputs to the unregistered address.
TxsByInputs ==
  {TxArg(h, i, Repeat(OutUnreg, n), Repeat(NilRec, n)) :
     h \in Hashes, i \in SeqsUpTo(Outpoints, 2), n \in 0..MaxOuts}

TxsWide == TxsByOutputs \cup TxsByInputs

\* Transactions for the interleavings: h1 creates an output, h2 and h3 both
\* spend it, h2 creating an output of its own.
TxsNarrow ==
  {TxArg("h1", <<>>, <<OutUnreg>>, <<NilRec>>),
   TxArg("h2", <<Outpoint("h1", 0)>>, <<OutUnreg>>, <<NilRec>>),
   TxArg("h3", <<Outpoint("h1", 0)>>, <<>>, <<>>)}

\* Reservation arguments: the outpoints of the utxos, and the expiry.
ResvArg(outpoints, exp) == [outpoints |-> outpoints, exp |-> exp]
ResvsWide ==
  {ResvArg(u, t) : u \in SeqsUpTo(Outpoints, 2), t \in 1..MaxTime}
ResvsNarrow == {ResvArg(<<Outpoint("h1", 0)>>, t) : t \in 1..MaxTime}

\* LoadUTXOs arguments: every account (the empty one too) and asset.
LoadArg(account, asset) == [account |-> account, asset |-> asset]
LoadsWide ==
  {LoadArg(c, a) : c \in {"acc1", "acc2", ""}, a \in {"a1", "a2"}}

\* The table after scenario A: h1 applied with a registered and an
\* unregistered output.
ScenarioA ==
  insertUTXOs(AddressRecords, {}, "h1", <<OutReg, OutUnreg>>,
              <<NilRec, NilRec>>, "none").rows

InitTables == {{}, ScenarioA}

\* ScenarioA with its rows reserved until 1, and with h2's first output, paid
\* to a local account, beside them.
ScenarioAReserved == {[r EXCEPT !.reserved_until = 1] : r \in ScenarioA}
ScenarioAB ==
  ScenarioAReserved \cup
    insertUTXOs(AddressRecords, {}, "h2", <<OutUnreg>>, <<HintLocal>>,
                "none").rows

SeqTables == {{}, ScenarioA, ScenarioAB}

----------------------------------------------------------------------------
(* Operations *)

\* The rows deleteUTXOs's DELETE removes: the visible rows whose key is among
\* the inputs' outpoints.
deleteRowsByTxid(view, txins) ==
  {r \in view : \E i \in 1..Len(txins) : r.txid = TxidArray(txins)[i]}
deleteRows(view, txins) ==
  {r \in view : KeyOf(r) \in UnnestPairs(TxidArray(txins), IndexArray(txins))}

\* deleteUTXOs: the rows its DELETE removes, and the utxos it returns, one
\* for each row RETURNING gives back.
deleteUTXOsEchoInputs(view, txins) ==
  [gone |-> deleteRows(view, txins),
   deleted |-> {[AccountID |-> "", AssetID |-> "",
                 Hash |-> txins[i].Hash, Index |-> txins[i].Index] :
                  i \in 1..Len(txins)}]
deleteUTXOs(view, txins) ==
  [gone |-> deleteRows(view, txins),
   deleted |-> {DeletedUTXO(r) : r \in deleteRows(view, txins)}]

\* The rows SaveReservations's UPDATE matches.
reserveRows(view, outpoints) ==
  {r \in view :
     KeyOf(r) \in UnnestPairs(TxidArray(outpoints), IndexArray(outpoints))}

\* The rows SaveReservations's UPDATE leaves in place of those it matches.
updatedRowsUpsert(view, outpoints, exp) ==
  {[r EXCEPT !.reserved_until = exp] : r \in reserveRows(view, outpoints)}
    \cup {[txid |-> k[1], index |-> k[2], asset_id |-> "", amount |-> 0,
           account_id |-> "", manager_node_id |-> "",
           addr_index |-> <<0, 0, 0, 0>>, reserved_until |-> exp] :
            k \in UnnestPairs(TxidArray(outpoints), IndexArray(outpoints))
                    \ Keys(view)}
updatedRowsKeepLater(view, outpoints, exp) ==
  {[r EXCEPT !.reserved_until = IF @ > exp THEN @ ELSE exp] :
     r \in reserveRows(view, outpoints)}
updatedRows(view, outpoints, exp) ==
  {[r EXCEPT !.reserved_until = exp] : r \in reserveRows(view, outpoints)}

\* The error ApplyTx returns after WriteActivity ("" for none).
ActivityErrorSwallowed(ok) == ""
ActivityError(ok) == IF ok THEN "" ELSE "creating activity items"

\* The handles a context can carry: the database, or an open transaction.
Handles == {"db", "tx"}

\* The storage and collaborator failures a call can meet, by the step that
\* fails: the SELECT or the INSERT of insertUTXOs, WriteActivity, the DELETE
\* of deleteUTXOs, the UPDATE of SaveReservations, and the query, a row's
\* scan, a hash's decoding and the row iteration of LoadUTXOs.
Faults ==
  {"none", "select", "insert", "activity", "delete", "update",
   "query", "scan", "decode hash", "rows"}

\* Request handler p can call an operation.
Ready(p) == pc[p] \in {"idle", "done", "panicked"} /\ ops < MaxOps

\* sqlUTXODB.ApplyTx, from its entry through insertUTXOs, called with handle
\* h in the context: it panics unless h is a transaction, and returns early
\* when insertUTXOs fails.  The INSERT waits for keys locked by others.
ApplyTx(p, D, H, F) ==
  /\ Ready(p)
  /\ ops' = ops + 1
  /\ \E a \in D, h \in H, fault \in F \cap {"none", "select", "insert"} :
       IF ~IsPgTx(h)
       THEN /\ pc' = [pc EXCEPT ![p] = "panicked"]
            /\ call' = [call EXCEPT ![p] =
                          [NoCall EXCEPT !.op = "ApplyTx", !.h = h,
                                         !.seq = ops + 1,
                                         !.pre = utxos, !.post = utxos,
                                         !.end = utxos,
                                         !.outcome = "panicked"]]
            /\ result' = [result EXCEPT ![p] = NoResult]
            /\ act' = [act EXCEPT ![p] = NoActivity]
            /\ UNCHANGED <<utxos, addresses, handle, uow, made, spent, now>>
       ELSE LET view == ViewOf(p, h)
                r == insertUTXOs(addresses, view, a.hash, a.outputs, a.recs,
                                 fault)
            IN /\ Keys(r.stmt) \cap LockedByOthers(p) = {}
               /\ handle' = [handle EXCEPT ![p] = h]
               /\ WriteRows(p, h, {}, r.rows)
               /\ call' = [call EXCEPT ![p] =
                             [NoCall EXCEPT
                                !.op = "ApplyTx", !.h = h,
                                !.seq = ops + 1,
                                !.hash = a.hash,
                                !.inputs = a.inputs,
                                !.outputs = a.outputs,
                                !.recs = a.recs,
                                !.nOuts = Len(a.outputs),
                                !.nRecs = Len(a.recs),
                                !.insUTXOs = IF r.err = "" THEN r.insert
                                             ELSE <<>>,
                                !.pre = view,
                                !.post = view \cup r.rows,
                                !.outcome = "open"]]
               /\ IF r.err = ""
                  THEN /\ pc' = [pc EXCEPT ![p] = "inserted"]
                       /\ result' = [result EXCEPT ![p] = NoResult]
                  ELSE /\ pc' = [pc EXCEPT ![p] = "returned"]
                       /\ result' = [result EXCEPT ![p] =
                                       [NoResult EXCEPT !.returned = TRUE,
                                                        !.err = r.err]]
               /\ act' = [act EXCEPT ![p] = NoActivity]
               /\ UNCHANGED <<addresses, made, spent, now>>

\* ApplyTx's call of appdb.WriteActivity with the local utxos; the
\* collaborator succeeds or fails, and a failure is returned.
WriteActivity(p, F) ==
  /\ pc[p] = "inserted"
  /\ \E ok \in {TRUE} \cup {FALSE : f \in F \cap {"activity"}} :
       /\ act' = [act EXCEPT ![p] =
                    [called |-> TRUE, ok |-> ok,
                     utxos |-> LocalUTXOs(call[p].insUTXOs),
                     view |-> View(p)]]
       /\ IF ActivityError(ok) = ""
          THEN /\ pc' = [pc EXCEPT ![p] = "recorded"]
               /\ UNCHANGED result
          ELSE /\ pc' = [pc EXCEPT ![p] = "returned"]
               /\ result' = [result EXCEPT ![p] =
                               [NoResult EXCEPT !.returned = TRUE,
                                                !.err = ActivityError(ok)]]
  /\ UNCHANGED <<utxos, addresses, handle, uow, call, made, spent, ops, now>>

\* ApplyTx's call of deleteUTXOs and its return of (deleted, inserted).  The
\* DELETE waits for rows locked by others.
ApplyTxDelete(p, F) ==
  /\ pc[p] = "recorded"
  /\ LET d == deleteUTXOs(View(p), call[p].inputs)
         gone == d.gone
     IN /\ Keys(gone) \cap LockedByOthers(p) = {}
        /\ \E fault \in F \cap {"none", "delete"} :
             IF fault = "delete"
             THEN /\ result' = [result EXCEPT ![p] =
                                  [NoResult EXCEPT !.returned = TRUE,
                                                   !.err = "delete"]]
                  /\ UNCHANGED <<utxos, uow, call>>
             ELSE /\ WriteRows(p, handle[p], gone, {})
                  /\ result' = [result EXCEPT ![p] =
                                  [NoResult EXCEPT
                                     !.returned = TRUE,
                                     !.deleted = d.deleted,
                                     !.inserted =
                                       LocalUTXOs(call[p].insUTXOs)]]
                  /\ call' = [call EXCEPT ![p].post = View(p) \ gone]
  /\ pc' = [pc EXCEPT ![p] = "returned"]
  /\ UNCHANGED <<addresses, handle, act, made, spent, ops, now>>

\* sqlUTXODB.SaveReservations called with handle h in the context: one
\* UPDATE, which waits for rows locked by others.
SaveReservations(p, D, H, F) ==
  /\ Ready(p)
  /\ ops' = ops + 1
  /\ \E a \in D, h \in H, f \in F \cap {"none", "update"} :
       LET fault == f = "update"
           view == ViewOf(p, h)
           target == IF fault THEN {} ELSE reserveRows(view, a.outpoints)
           updated == IF fault THEN {}
                      ELSE updatedRows(view, a.outpoints, a.exp)
       IN /\ Keys(reserveRows(view, a.outpoints)) \cap LockedByOthers(p) = {}
          /\ handle' = [handle EXCEPT ![p] = h]
          /\ WriteRows(p, h, target, updated)
          /\ result' = [result EXCEPT ![p] =
                          [NoResult EXCEPT
                             !.returned = TRUE,
                             !.err = IF fault
                                     THEN "update utxo reserve expiration"
                                     ELSE ""]]
          /\ pc' = [pc EXCEPT ![p] = IF h = "tx" THEN "returned" ELSE "done"]
          /\ call' = [call EXCEPT ![p] =
                        [NoCall EXCEPT
                           !.op = "SaveReservations", !.h = h,
                           !.seq = ops + 1,
                           !.inputs = a.outpoints, !.exp = a.exp,
                           !.at = now,
                           !.pre = view,
                           !.post = (view \ target) \cup updated,
                           !.end = IF h = "tx" THEN {}
                                   ELSE (view \ target) \cup updated,
                           !.fault = IF fault THEN "update" ELSE "none",
                           !.outcome = IF h = "tx" THEN "open"
                                       ELSE "committed"]]
  /\ act' = [act EXCEPT ![p] = NoActivity]
  /\ UNCHANGED <<addresses, made, spent, now>>

\* A timestamp as the store hands it out, in the session's time zone, and
\* time.Time.UTC: the same instant in UTC.
StoredTime(t) == [instant |-> t, loc |-> "Local"]
UTC(t) == [t EXCEPT !.loc = "UTC"]

\* The rows LoadUTXOs's SELECT matches.
loadRowsByAccount(view, accountID, assetID) ==
  {r \in view : r.account_id = accountID}
loadRowsUnexpired(view, accountID, assetID) ==
  {r \in view : /\ r.account_id = accountID /\ r.asset_id = assetID
                /\ ~(r.reserved_until > Unreserved /\ r.reserved_until < now)}
loadRows(view, accountID, assetID) ==
  {r \in view : r.account_id = accountID /\ r.asset_id = assetID}

\* The utxodb.UTXO that LoadUTXOs builds from a row.
LoadedUTXO(accountID, assetID, r) ==
  [AccountID |-> accountID, AssetID |-> assetID, Amount |-> r.amount,
   ResvExpires |-> UTC(StoredTime(r.reserved_until)),
   Hash |-> ParseHash(r.txid), Index |-> r.index]

\* The orders in which the store can return a set of rows: each row once.
RowOrders(rows) ==
  {s \in [1..Cardinality(rows) -> rows] :
     \A i, j \in 1..Cardinality(rows) : i # j => s[i] # s[j]}

\* sqlUTXODB.LoadUTXOs called with handle h in the context: one SELECT, whose
\* rows come in an order of the store's choosing.  A failing query, scan or
\* decoding returns no utxos; a failing iteration returns those read so far.
LoadUTXOs(p, D, H, F) ==
  /\ Ready(p)
  /\ ops' = ops + 1
  /\ \E a \in D, h \in H,
        fault \in F \cap {"none", "query", "scan", "decode hash", "rows"} :
       LET view == ViewOf(p, h)
           rows == loadRows(view, a.account, a.asset)
       IN \E s \in RowOrders(rows), n \in 0..Cardinality(rows) :
            /\ fault # "rows" => n = Cardinality(rows)
            /\ handle' = [handle EXCEPT ![p] = h]
            /\ result' = [result EXCEPT ![p] =
                 [NoResult EXCEPT
                    !.returned = TRUE,
                    !.err = IF fault = "none" THEN "" ELSE fault,
                    !.utxos = IF fault \in {"none", "rows"}
                              THEN [i \in 1..n |->
                                      LoadedUTXO(a.account, a.asset, s[i])]
                              ELSE <<>>]]
            /\ pc' = [pc EXCEPT ![p] = IF h = "tx" THEN "returned" ELSE "done"]
            /\ call' = [call EXCEPT ![p] =
                 [NoCall EXCEPT
                    !.op = "LoadUTXOs", !.h = h, !.seq = ops + 1,
                    !.account = a.account, !.asset = a.asset, !.at = now,
                    !.pre = view, !.post = view,
                    !.end = IF h = "tx" THEN {} ELSE view,
                    !.fault = fault,
                    !.outcome = IF h = "tx" THEN "open" ELSE "committed"]]
  /\ act' = [act EXCEPT ![p] = NoActivity]
  /\ UNCHANGED <<utxos, addresses, uow, made, spent, now>>

\* Time passes.
Tick ==
  /\ now < MaxTime + 1
  /\ now' = now + 1
  /\ UNCHANGED <<utxos, addresses, handle, uow, pc, call, result, act, made,
                 spent, ops>>

\* The key of a reported utxo.
KeyOfUTXO(u) == <<HashString(u.Hash), u.Index>>

\* The caller commits the unit of work of an operation that succeeded.
Commit(p) ==
  /\ pc[p] = "returned"
  /\ result[p].err = ""
  /\ LET after == View(p)
     IN /\ utxos' = after
        /\ call' = [call EXCEPT ![p].outcome = "committed", ![p].end = after]
  /\ uow' = [uow EXCEPT ![p] = EmptyUow]
  /\ handle' = [handle EXCEPT ![p] = "db"]
  /\ pc' = [pc EXCEPT ![p] = "done"]
  /\ IF call[p].op = "ApplyTx"
     THEN /\ made' = [k \in AllKeys |->
                       IF k \in Keys(InsertRows(call[p].hash,
                                                call[p].insUTXOs))
                       THEN made[k] + 1 ELSE made[k]]
          /\ spent' = [k \in AllKeys |->
                        IF k \in {KeyOfUTXO(u) : u \in result[p].deleted}
                        THEN spent[k] + 1 ELSE spent[k]]
     ELSE UNCHANGED <<made, spent>>
  /\ UNCHANGED <<addresses, result, act, ops, now>>

\* The caller rolls the unit of work back: after a failure always, after a
\* success when it gives up for a reason of its own.
Rollback(p) ==
  /\ pc[p] = "returned"
  /\ uow' = [uow EXCEPT ![p] = EmptyUow]
  /\ handle' = [handle EXCEPT ![p] = "db"]
  /\ pc' = [pc EXCEPT ![p] = "done"]
  /\ call' = [call EXCEPT ![p].outcome = "rolledback", ![p].end = utxos]
  /\ UNCHANGED <<utxos, addresses, result, act, made, spent, ops, now>>

----------------------------------------------------------------------------
(* Specifications *)

InitWith(tables) ==
  /\ utxos \in tables
  /\ addresses = AddressRecords
  /\ handle = [p \in Procs |-> "db"]
  /\ uow = [p \in Procs |-> EmptyUow]
  /\ pc = [p \in Procs |-> "idle"]
  /\ call = [p \in Procs |-> NoCall]
  /\ result = [p \in Procs |-> NoResult]
  /\ act = [p \in Procs |-> NoActivity]
  /\ made = [k \in AllKeys |-> IF k \in Keys(utxos) THEN 1 ELSE 0]
  /\ spent = [k \in AllKeys |-> 0]
  /\ ops = 0
  /\ now = 0

Init == InitWith(InitTables)

\* Request handlers run concurrently.
Next ==
  \E p \in Procs :
    \/ ApplyTx(p, TxsNarrow, {"tx"}, {"none"})
    \/ WriteActivity(p, {"none"})
    \/ ApplyTxDelete(p, {"none"})
    \/ SaveReservations(p, ResvsNarrow, Handles, {"none"})
    \/ Commit(p)
    \/ Rollback(p)

Spec == Init /\ [][Next]_vars

\* One operation, of any arguments, on each of the tables SeqTables.
InitSeq == InitWith(SeqTables)

\* No operation was called yet.
Fresh == \A q \in Procs : call[q].op = "none"

NextSeq ==
  \/ Fresh /\ ApplyTx("r1", TxsWide, Handles, Faults)
  \/ WriteActivity("r1", Faults)
  \/ ApplyTxDelete("r1", Faults)
  \/ Fresh /\ SaveReservations("r1", ResvsWide, Handles, Faults)
  \/ Fresh /\ LoadUTXOs("r1", LoadsWide, Handles, Faults)
  \/ Commit("r1")
  \/ Rollback("r1")

SpecSeq == InitSeq /\ [][NextSeq]_vars

\* Transactions for a row's life: h2 spends the first output of h1 and pays
\* the registered address with a hint; h3 spends nothing and pays the
\* registered and the unregistered address, without hints or with.
TxsLife ==
  {TxArg("h2", <<Outpoint("h1", 0)>>, <<OutReg>>, <<HintLocal>>),
   TxArg("h3", <<>>, <<OutReg, OutUnreg>>, <<NilRec, NilRec>>),
   TxArg("h3", <<>>, <<OutReg, OutUnreg>>, <<HintLocal, HintLocal>>)}

\* Reservations of the first output of h1, alone or with that of h2.
ResvsLife ==
  {ResvArg(u, t) :
     u \in {<<Outpoint("h1", 0)>>, <<Outpoint("h1", 0), Outpoint("h2", 0)>>},
     t \in 1..MaxTime}

\* One caller applies transactions, reserves and loads, one operation after
\* the other, while time passes.
InitLife == InitWith({ScenarioA, ScenarioAB})

NextLife ==
  \/ ApplyTx("r1", TxsLife, {"tx"}, {"none"})
  \/ WriteActivity("r1", {"none"})
  \/ ApplyTxDelete("r1", {"none"})
  \/ SaveReservations("r1", ResvsLife, Handles, {"none"})
  \/ LoadUTXOs("r1", LoadsWide, {"db"}, {"none"})
  \/ Tick
  \/ Commit("r1")
  \/ Rollback("r1")

SpecLife == InitLife /\ [][NextLife]_vars

\* Two transaction builders reserve the same output while time passes.
InitResv == InitWith({ScenarioA, ScenarioAReserved})

NextResv ==
  \/ \E p \in Procs :
       \/ SaveReservations(p, ResvsNarrow, Handles, {"none"})
       \/ Commit(p)
       \/ Rollback(p)
  \/ Tick

SpecResv == InitResv /\ [][NextResv]_vars

\* Address indexes at the edges of the 16-bit limbs, of 31 bits and of 32
\* bits.
IndexSamples ==
  {U32(0), U32(1), U32(Limb - 1), U32(Limb), U32(LowMask - 1), U32(LowMask),
   <<HalfLimb, 0>>, <<HalfLimb, 1>>, <<Limb - 1, Limb - 2>>,
   <<Limb - 1, Limb - 1>>}

\* Transactions of one output whose hint carries each pair of samples as its
\* address index.
TxsPack ==
  {TxArg("h3", <<>>, <<OutUnreg>>,
         <<[HintLocal EXCEPT !.AddrIndex = <<a, b>>]>>) :
     a \in IndexSamples, b \in IndexSamples}

InitPack == InitWith({ScenarioA})

NextPack ==
  \/ Fresh /\ ApplyTx("r1", TxsPack, {"tx"}, {"none"})
  \/ WriteActivity("r1", {"none"})
  \/ ApplyTxDelete("r1", {"none"})
  \/ Commit("r1")
  \/ Rollback("r1")

SpecPack == InitPack /\ [][NextPack]_vars

----------------------------------------------------------------------------
(* Claims about one ApplyTx call (SpecSeq) *)

\* A call of ApplyTx by p has returned without error.
Applied(p) ==
  call[p].op = "ApplyTx" /\ result[p].returned /\ result[p].err = ""

\* The keys of the outpoints the inputs of p's transaction reference.
InputKeys(p) ==
  {<<HashString(call[p].inputs[i].Hash), call[p].inputs[i].Index>> :
     i \in 1..Len(call[p].inputs)}

\* The rows of the outputs of p's transaction: one per output, keyed by the
\* transaction hash and the output's position.
OutputRows(p) == InsertRows(call[p].hash, call[p].insUTXOs)

\* The rows without those of the given keys.
Without(rows, keys) == {r \in rows : KeyOf(r) \notin keys}

\* C1 as stated: a successful ApplyTx on set S with inputs I and outputs O
\* leaves S' = (S \ I) \cup O, for all I and O.
C1_Original ==
  \A p \in Procs :
    Applied(p) =>
      call[p].post = Without(call[p].pre, InputKeys(p)) \cup OutputRows(p)

\* C1 amended: a successful ApplyTx leaves S' = (S \cup O) \ I (the outputs
\* are inserted before the inputs are deleted), which is (S \ I) \cup O when
\* no input references an output of the transaction itself; the committed
\* table is that set.
C1_ApplyTxSet ==
  \A p \in Procs :
    Applied(p) =>
      /\ call[p].post = Without(call[p].pre \cup OutputRows(p), InputKeys(p))
      /\ InputKeys(p) \cap Keys(OutputRows(p)) = {} =>
           call[p].post =
             Without(call[p].pre, InputKeys(p)) \cup OutputRows(p)
      /\ pc[p] = "returned" => View(p) = call[p].post
      /\ call[p].outcome = "committed" => utxos = call[p].post

\* C1's case: a committed ApplyTx whose inputs reference an output of the
\* transaction itself and a row that was in the set.
C1_Witness ==
  \E p \in Procs :
    /\ Applied(p) /\ call[p].outcome = "committed"
    /\ InputKeys(p) \cap Keys(OutputRows(p)) # {}
    /\ InputKeys(p) \cap Keys(call[p].pre) # {}

\* C2: deleted is exactly the rows the call removed, each with the account
\* and asset the row had: the rows in the set when deleteUTXOs ran whose
\* outpoint is an input, and no outpoint that had no row.
C2_DeletedExact ==
  \A p \in Procs :
    Applied(p) =>
      LET before == call[p].pre \cup OutputRows(p)
          removed == {r \in before : KeyOf(r) \in InputKeys(p)}
      IN /\ result[p].deleted =
              {[AccountID |-> r.account_id, AssetID |-> r.asset_id,
                Hash |-> r.txid[2], Index |-> r.index] : r \in removed}
         /\ call[p].post = before \ removed
         /\ \A k \in InputKeys(p) \ Keys(before) :
              \A d \in result[p].deleted : KeyOfUTXO(d) # k

\* C2's case: of two inputs one had no row and is not reported, and the one
\* reported was a row without an owner.
C2_Witness ==
  \E p \in Procs :
    /\ Applied(p)
    /\ Cardinality(InputKeys(p)) = 2
    /\ \E d \in result[p].deleted :
         result[p].deleted = {d} /\ d.AccountID = "" /\ d.AssetID # ""

\* The utxos of a list that have a manager node, in the list's order.
RECURSIVE WithManagerNode(_)
WithManagerNode(us) ==
  IF us = <<>> THEN <<>>
  ELSE IF Head(us).ManagerNodeID # ""
       THEN <<Head(us)>> \o WithManagerNode(Tail(us))
       ELSE WithManagerNode(Tail(us))

\* C3: inserted is the outputs with a non-empty manager node, in output
\* order, and is what the activity collaborator was handed; every output's
\* row was written, with or without a manager node.
C3_InsertedLocal ==
  \A p \in Procs :
    /\ Applied(p) =>
         /\ result[p].inserted = WithManagerNode(call[p].insUTXOs)
         /\ act[p].called /\ act[p].utxos = result[p].inserted
         /\ OutputRows(p) \subseteq
              call[p].post \cup {r \in OutputRows(p) : KeyOf(r) \in InputKeys(p)}
    /\ act[p].called => act[p].utxos = WithManagerNode(call[p].insUTXOs)

\* C3's case: of two outputs one has a manager node and is returned, the
\* other has none and is persisted only.
C3_Witness ==
  \E p \in Procs :
    /\ Applied(p)
    /\ Len(call[p].insUTXOs) = 2 /\ Len(result[p].inserted) = 1
    /\ \E r \in call[p].post :
         r.txid = HashString(call[p].hash) /\ r.manager_node_id = ""

\* A step of p's ApplyTx failed.
StepFailed(p) ==
  /\ call[p].op = "ApplyTx"
  /\ call[p].outcome # "panicked"
  /\ \/ result[p].returned /\ result[p].err # ""
     \/ act[p].called /\ ~act[p].ok

\* C4: when a step of ApplyTx fails, the persisted set after the unit of work
\* has ended is the set before the call.
C4_FailureRollsBack ==
  \A p \in Procs :
    StepFailed(p) /\ call[p].outcome # "open" =>
      /\ utxos = call[p].pre
      /\ call[p].end = call[p].pre
      /\ uow[p] = EmptyUow

\* C4's case: activity recording failed after rows were inserted, and the
\* unit of work has ended.
C4_Witness ==
  \E p \in Procs :
    /\ pc[p] = "done" /\ call[p].op = "ApplyTx"
    /\ result[p].err = "creating activity items"
    /\ call[p].insUTXOs # <<>>
    /\ call[p].post # call[p].pre

\* C5: ApplyTx called with a handle that is no transaction panics: nothing is
\* inserted, recorded or deleted, nothing is returned.
C5_PanicsOutsideTx ==
  \A p \in Procs :
    call[p].op = "ApplyTx" /\ call[p].h # "tx" =>
      /\ pc[p] = "panicked"
      /\ result[p] = NoResult
      /\ ~act[p].called
      /\ utxos = call[p].pre /\ uow[p] = EmptyUow

\* C5's case: ApplyTx was called with the database handle.
C5_Witness ==
  \E p \in Procs :
    call[p].op = "ApplyTx" /\ call[p].h = "db" /\ pc[p] = "panicked"

\* C6: when the outputs and the hints differ in length, ApplyTx (in a unit of
\* work) fails with a length mismatch: nothing resolved or inserted, no
\* activity, nothing deleted, the set unchanged.
C6_LengthMismatch ==
  \A p \in Procs :
    call[p].op = "ApplyTx" /\ call[p].h = "tx"
      /\ call[p].nOuts # call[p].nRecs =>
      /\ result[p].returned /\ result[p].err = "length mismatch"
      /\ call[p].insUTXOs = <<>>
      /\ ~act[p].called
      /\ result[p].deleted = {} /\ result[p].inserted = <<>>
      /\ View(p) = call[p].pre /\ utxos = call[p].pre

\* C6's case: more hints than outputs.
C6_Witness ==
  \E p \in Procs :
    /\ result[p].err = "length mismatch"
    /\ call[p].nRecs > call[p].nOuts /\ call[p].nOuts > 0

----------------------------------------------------------------------------
(* Claims about one SaveReservations call (SpecSeq) *)

\* A call of SaveReservations by p has returned without error.
Reserved(p) ==
  call[p].op = "SaveReservations" /\ result[p].returned /\ result[p].err = ""

\* The outpoints (hash, index) of the utxos handed to SaveReservations.
ReservedOutpoints(p) ==
  {<<call[p].inputs[i].Hash, call[p].inputs[i].Index>> :
     i \in 1..Len(call[p].inputs)}

\* C7: after SaveReservations(U, t) succeeds, the rows whose (hash, index) is
\* the outpoint of an element of U have reservedUntil = t and nothing else
\* changed: no other row, no other field, no row added or removed.
C7_ReserveFrame ==
  \A p \in Procs :
    Reserved(p) =>
      /\ call[p].post =
           {IF <<r.txid[2], r.index>> \in ReservedOutpoints(p)
            THEN [r EXCEPT !.reserved_until = call[p].exp] ELSE r :
              r \in call[p].pre}
      /\ Keys(call[p].post) = Keys(call[p].pre)
      /\ Cardinality(call[p].post) = Cardinality(call[p].pre)
      /\ call[p].outcome = "open" => View(p) = call[p].post
      /\ call[p].outcome = "committed" => utxos = call[p].post

\* C7's case: two rows were reserved, and a row that shares its hash with
\* one of them and its index with the other kept its reservedUntil.
C7_Witness ==
  \E p \in Procs :
    /\ Reserved(p) /\ call[p].outcome = "committed"
    /\ \E r \in utxos :
         /\ r.reserved_until # call[p].exp
         /\ <<r.txid[2], r.index>> \notin ReservedOutpoints(p)
         /\ \E a, b \in ReservedOutpoints(p) :
              /\ a[1] = r.txid[2] /\ b[2] = r.index
              /\ \E ra, rb \in utxos :
                   /\ <<ra.txid[2], ra.index>> = a
                   /\ <<rb.txid[2], rb.index>> = b
                   /\ ra.reserved_until = call[p].exp
                   /\ rb.reserved_until = call[p].exp

----------------------------------------------------------------------------
(* Claims about interleaved operations (Spec) *)

\* The unit of work of p's operation has ended.
Ended(p) == call[p].outcome \in {"committed", "rolledback"}

\* p's and q's operations are the last two called.
LastTwo(p, q) ==
  /\ p # q
  /\ {call[p].seq, call[q].seq} = {ops - 1, ops}

\* C8: SaveReservations creates no row and does not fail for a missing row;
\* once a SaveReservations on outpoint o and an ApplyTx that consumed o have
\* both completed, in either order, o is not in the set.
C8_ReserveVsSpend ==
  /\ \A q \in Procs :
       call[q].op = "SaveReservations" =>
         /\ Keys(call[q].post) = Keys(call[q].pre)
         /\ result[q].err # "" => call[q].fault = "update"
  /\ \A p, q \in Procs :
       /\ LastTwo(p, q)
       /\ Applied(p) /\ call[p].outcome = "committed"
       /\ call[q].op = "SaveReservations" /\ Ended(q)
       => \A d \in result[p].deleted :
            <<d.Hash, d.Index>> \in ReservedOutpoints(q) =>
              KeyOfUTXO(d) \notin Keys(utxos)

\* C8's case: the reservation, in a unit of work of its own, was made before
\* the spending ApplyTx was called and committed before it deleted the row;
\* a second witness conjunct: both succeeded.
C8_Witness ==
  \E p, q \in Procs :
    /\ LastTwo(p, q)
    /\ Applied(p) /\ call[p].outcome = "committed"
    /\ Reserved(q) /\ call[q].outcome = "committed" /\ call[q].h = "tx"
    /\ call[q].seq < call[p].seq
    /\ \E d \in result[p].deleted :
         <<d.Hash, d.Index>> \in ReservedOutpoints(q)
    /\ \E r \in act[p].view :
         KeyOf(r) \in InputKeys(p) /\ r.reserved_until = Unreserved

\* C9: no two rows of the set, committed or as seen inside a unit of work,
\* have the same (txid, index).
C9_UniqueOutpoints ==
  \A rows \in {utxos} \cup {View(p) : p \in Procs} :
    \A r1, r2 \in rows : KeyOf(r1) = KeyOf(r2) => r1 = r2

\* C9's case: a transaction whose outputs are in the set was applied again,
\* and its INSERT failed.
C9_Witness ==
  \E p \in Procs :
    /\ call[p].op = "ApplyTx" /\ result[p].err = "insert"
    /\ HashString(call[p].hash) \in {r.txid : r \in utxos}

\* C10 as stated: over any sequence or interleaving of ApplyTx calls an
\* outpoint is in the deleted result of at most one successful call.
C10_Original == \A k \in AllKeys : spent[k] <= 1

\* C10 amended: an outpoint is in the deleted results of committed ApplyTx
\* calls at most once per insertion of its row.
C10_DeletedPerInsertion == \A k \in AllKeys : spent[k] <= made[k]

\* C10's case: two committed transactions spend the same outpoint and only
\* one reports it deleted.
C10_Witness ==
  \E p, q \in Procs :
    /\ LastTwo(p, q)
    /\ Applied(p) /\ call[p].outcome = "committed"
    /\ Applied(q) /\ call[q].outcome = "committed"
    /\ \E k \in InputKeys(p) \cap InputKeys(q) :
         /\ k \in {KeyOfUTXO(d) : d \in result[p].deleted}
         /\ k \notin {KeyOfUTXO(d) : d \in result[q].deleted}
         /\ spent[k] = 1

----------------------------------------------------------------------------
(* Claims about LoadUTXOs and a row's life (SpecLife) *)

\* A call of LoadUTXOs by p has returned without error.
Loaded(p) ==
  call[p].op = "LoadUTXOs" /\ result[p].returned /\ result[p].err = ""

\* The utxos p's LoadUTXOs returned.
LoadedSet(p) == {result[p].utxos[i] : i \in 1..Len(result[p].utxos)}

\* C11: LoadUTXOs(accountID, assetID) returns exactly the rows of that
\* account and asset, each once, with outpoint, amount and reservedUntil,
\* reserved or expired alike, and leaves the set unchanged.
C11_LoadExact ==
  \A p \in Procs :
    Loaded(p) =>
      LET want == {r \in call[p].pre :
                     /\ r.account_id = call[p].account
                     /\ r.asset_id = call[p].asset}
      IN /\ Len(result[p].utxos) = Cardinality(want)
         /\ LoadedSet(p) =
              {[AccountID |-> r.account_id, AssetID |-> r.asset_id,
                Amount |-> r.amount,
                ResvExpires |-> [instant |-> r.reserved_until, loc |-> "UTC"],
                Hash |-> r.txid[2], Index |-> r.index] : r \in want}
         /\ View(p) = call[p].pre /\ utxos = call[p].pre

\* C11's case: two rows are returned, one of them with a reservation that
\* has expired, while the set holds a row of the same account and another
\* asset and a row of another account and the same asset.
C11_Witness ==
  \E p \in Procs :
    /\ Loaded(p) /\ Len(result[p].utxos) = 2
    /\ \E u \in LoadedSet(p) :
         u.ResvExpires.instant > Unreserved /\ u.ResvExpires.instant < call[p].at
    /\ \E r \in utxos :
         r.account_id = call[p].account /\ r.asset_id # call[p].asset
    /\ \E r \in utxos :
         r.account_id # call[p].account /\ r.asset_id = call[p].asset

----------------------------------------------------------------------------
(* Claims about toKeyIndex (SpecPack) *)

\* A uint32 below 2^31.
Below31(u) == u[1] < HalfLimb

\* The rows p's transaction left for its output i (1-based).
RowsOfOutput(p, i) ==
  {r \in call[p].post :
     r.txid = HashString(call[p].hash) /\ r.index = i - 1}

\* C12: for a and b below 2^31, unpacking toKeyIndex(a, b) gives (a, b) back,
\* and toKeyIndex is injective there.
C12_RoundTrip ==
  /\ \A p \in Procs :
       Applied(p) =>
         \A i \in 1..Len(call[p].recs) :
           LET ai == call[p].recs[i].AddrIndex
           IN Below31(ai[1]) /\ Below31(ai[2]) =>
                \A r \in RowsOfOutput(p, i) : KeyIndexPair(r.addr_index) = ai
  /\ \A i, j \in {s \in IndexSamples : Below31(s)}
                   \X {s \in IndexSamples : Below31(s)} :
       toKeyIndex(i) = toKeyIndex(j) => i = j

\* C12's case: a row was written for the pair (2^31 - 1, 2^31 - 2).
C12_Witness ==
  \E p \in Procs :
    /\ Applied(p) /\ Len(call[p].recs) = 1
    /\ call[p].recs[1].AddrIndex = <<U32(LowMask), U32(LowMask - 1)>>
    /\ RowsOfOutput(p, 1) # {}

\* a * 2^31 + (b mod 2^31), computed limb by limb with carries.
PackedValue(a, b) ==
  LET aLo == a[2] * HalfLimb
      aHi == a[1] * HalfLimb
      t1 == (b[1] % HalfLimb) + (aLo % Limb)
      t2 == (aLo \div Limb) + (aHi % Limb) + (t1 \div Limb)
      t3 == (aHi \div Limb) + (t2 \div Limb)
  IN <<t3, t2 % Limb, t1 % Limb, b[2]>>

\* b with its top bit flipped: b + 2^31 or b - 2^31.
FlipTop(b) == <<(b[1] + HalfLimb) % Limb, b[2]>>

\* C19: for all uint32 a and b, toKeyIndex gives a * 2^31 + (b mod 2^31),
\* non-negative and within 64 bits, the bits of a and b apart, and the top
\* bit of b dropped.
C19_PackedValue ==
  \A p \in Procs :
    Applied(p) =>
      \A i \in 1..Len(call[p].recs) :
        LET a == call[p].recs[i].AddrIndex[1]
            b == call[p].recs[i].AddrIndex[2]
        IN \A r \in RowsOfOutput(p, i) :
             /\ r.addr_index = PackedValue(a, b)
             /\ r.addr_index[1] < HalfLimb
             /\ \A k \in 1..4 : r.addr_index[k] \in 0..(Limb - 1)
             /\ \A k \in 1..4 :
                  BitAnd(Shl31(Int64(a))[k],
                         Int64(And32(b, U32(LowMask)))[k]) = 0
             /\ toKeyIndex(<<a, FlipTop(b)>>) = r.addr_index

\* C19's case: a row was written for a = 2^32 - 1 and b = 2^31 + 1.
C19_Witness ==
  \E p \in Procs :
    /\ Applied(p) /\ Len(call[p].recs) = 1
    /\ call[p].recs[1].AddrIndex = <<<<Limb - 1, Limb - 1>>, <<HalfLimb, 1>>>>
    /\ \E r \in RowsOfOutput(p, 1) :
         r.addr_index = <<HalfLimb - 1, Limb - 1, HalfLimb, 1>>

----------------------------------------------------------------------------
(* Claims about the steps of ApplyTx and the receiver resolver (SpecSeq) *)

\* The rows of the set before p's call that its inputs consume.
ConsumedRows(p) == {r \in call[p].pre : KeyOf(r) \in InputKeys(p)}

\* C13: ApplyTx inserts, records activity, deletes, in that order: the
\* activity collaborator is called when every output is in the set and every
\* consumed row is still there, and no row is deleted unless activity
\* recording succeeded.
C13_StepOrder ==
  \A p \in Procs :
    call[p].op = "ApplyTx" =>
      /\ act[p].called =>
           /\ Len(call[p].insUTXOs) = Len(call[p].outputs)
           /\ OutputRows(p) \subseteq act[p].view
           /\ ConsumedRows(p) \subseteq act[p].view
      /\ pc[p] \in {"inserted", "recorded"} =>
           /\ ConsumedRows(p) \subseteq View(p)
           /\ result[p].deleted = {}
      /\ (call[p].pre \ call[p].post # {} \/ result[p].deleted # {}) =>
           act[p].called /\ act[p].ok

\* C13's case: a transaction with an output consumed a row, and the activity
\* collaborator saw both the output and the row.
C13_Witness ==
  \E p \in Procs :
    /\ Applied(p) /\ act[p].called
    /\ OutputRows(p) # {} /\ ConsumedRows(p) # {}
    /\ ConsumedRows(p) \cap call[p].post = {}
    /\ (OutputRows(p) \cup ConsumedRows(p)) \subseteq act[p].view

\* The receiver fields of a resolved utxo, and of its row, are those of x
\* (a hint or an address record).
SameReceiver(u, accountID, managerNodeID, addrIndex, isChange) ==
  /\ u.AccountID = accountID /\ u.ManagerNodeID = managerNodeID
  /\ u.AddrIndex = addrIndex /\ u.IsChange = isChange
RowReceiver(r, accountID, managerNodeID, addrIndex) ==
  /\ r.account_id = accountID /\ r.manager_node_id = managerNodeID
  /\ r.addr_index = PackedValue(addrIndex[1], addrIndex[2])

\* Output i of p's transaction takes its receiver from hint or record x.
ResolvedFromHint(p, i) ==
  LET h == call[p].recs[i]
  IN /\ SameReceiver(call[p].insUTXOs[i], h.AccountID, h.ManagerNodeID,
                     h.AddrIndex, h.IsChange)
     /\ \A r \in RowsOfOutput(p, i) :
          RowReceiver(r, h.AccountID, h.ManagerNodeID, h.AddrIndex)
ResolvedFromRecord(p, i, a) ==
  /\ SameReceiver(call[p].insUTXOs[i], a.account_id, a.manager_node_id,
                  a.key_index, a.is_change)
  /\ \A r \in RowsOfOutput(p, i) :
       RowReceiver(r, a.account_id, a.manager_node_id, a.key_index)

\* The address records of the address output i of p's transaction pays.
RecordsOfOutput(p, i) ==
  {a \in addresses :
     a.address = PkScriptAddr(call[p].outputs[i].Script).addr}

\* C14 as stated: every output with a hint has the hint's receiver fields,
\* whatever the hint and whatever address record there is.
C14_Original ==
  \A p \in Procs :
    Applied(p) =>
      \A i \in 1..Len(call[p].recs) :
        ~call[p].recs[i].isNil => ResolvedFromHint(p, i)

\* C14 amended: every output with a hint whose account ID is not empty has
\* the hint's receiver fields, whatever address record there is; so has one
\* whose hint has an empty account ID when its address has no record, and
\* when it has one the output takes the record's fields.
C14_HintVerbatim ==
  \A p \in Procs :
    Applied(p) =>
      \A i \in 1..Len(call[p].recs) :
        ~call[p].recs[i].isNil =>
          IF call[p].recs[i].AccountID = "" /\ RecordsOfOutput(p, i) # {}
          THEN \A a \in RecordsOfOutput(p, i) : ResolvedFromRecord(p, i, a)
          ELSE ResolvedFromHint(p, i)

\* C14's case: two outputs pay the registered address, one with a hint that
\* names an account and keeps it, one with a hint that names none.
C14_Witness ==
  \E p \in Procs :
    /\ Applied(p) /\ Len(call[p].recs) = 2
    /\ \A i \in 1..2 : RecordsOfOutput(p, i) # {} /\ ~call[p].recs[i].isNil
    /\ call[p].recs[1].AccountID # "" /\ call[p].recs[2].AccountID = ""
    /\ call[p].insUTXOs[1].AccountID = call[p].recs[1].AccountID
    /\ RowsOfOutput(p, 1) # {} /\ RowsOfOutput(p, 2) # {}

BadScript(txo) == txo.Script[1] # "pay"

\* C17: when the script of one output is no pay-to-address pattern, ApplyTx
\* (in a unit of work, with as many hints as outputs) returns an error, no
\* output is inserted, no activity recorded, no input deleted.
C17_BadScriptAborts ==
  \A p \in Procs :
    /\ call[p].op = "ApplyTx" /\ call[p].h = "tx"
    /\ Len(call[p].outputs) = Len(call[p].recs)
    /\ \E i \in 1..Len(call[p].outputs) : BadScript(call[p].outputs[i])
    => /\ result[p].returned /\ result[p].err = "bad pk script"
       /\ call[p].insUTXOs = <<>>
       /\ result[p].deleted = {} /\ result[p].inserted = <<>>
       /\ ~act[p].called
       /\ View(p) = call[p].pre /\ utxos = call[p].pre
       /\ call[p].post = call[p].pre

\* C17's case: the second output is bad, the first is good and has a hint,
\* and the transaction's input has a row.
C17_Witness ==
  \E p \in Procs :
    /\ result[p].err = "bad pk script"
    /\ Len(call[p].outputs) = 2 /\ call[p].nRecs = 2
    /\ ~BadScript(call[p].outputs[1]) /\ BadScript(call[p].outputs[2])
    /\ ~call[p].recs[1].isNil
    /\ ConsumedRows(p) # {} /\ ConsumedRows(p) \subseteq utxos

----------------------------------------------------------------------------
(* Claims about external outputs and membership (SpecLife) *)

\* Output i of p's transaction has no hint and its address no record.
Unresolved(p, i) ==
  call[p].recs[i].isNil /\ RecordsOfOutput(p, i) = {}

\* C16: an output without hint and without address record is inserted with
\* empty account and manager node, is not handed to the activity collaborator
\* nor returned in inserted, and LoadUTXOs for a non-empty account never
\* returns a row without account.
C16_ExternalOutputs ==
  \A p \in Procs :
    /\ Applied(p) =>
         \A i \in 1..Len(call[p].recs) :
           Unresolved(p, i) =>
             /\ <<HashString(call[p].hash), i - 1>> \notin InputKeys(p)
                  => RowsOfOutput(p, i) # {}
             /\ \A r \in RowsOfOutput(p, i) :
                  r.account_id = "" /\ r.manager_node_id = ""
             /\ \A k \in 1..Len(result[p].inserted) :
                  result[p].inserted[k].Index # i - 1
             /\ \A k \in 1..Len(act[p].utxos) :
                  act[p].utxos[k].Index # i - 1
    /\ Loaded(p) /\ call[p].account # "" =>
         \A u \in LoadedSet(p) :
           \A r \in call[p].pre :
             KeyOf(r) = KeyOfUTXO(u) => r.account_id # ""

\* C16's case: a transaction applied in this run left a row without account,
\* and a LoadUTXOs for an account and that row's asset returned other rows.
C16_Witness ==
  \E p \in Procs :
    /\ Loaded(p) /\ call[p].account # "" /\ result[p].utxos # <<>>
    /\ \E r \in utxos :
         /\ r.txid = HashString("h3") /\ made[KeyOf(r)] = 1
         /\ r.account_id = "" /\ r.asset_id = call[p].asset

\* A step that changes which outpoints have a row is the commit of an
\* ApplyTx: the rows that enter are outputs of its transaction, the rows
\* that leave are consumed by its inputs.
MembershipStep ==
  Keys(utxos') # Keys(utxos) =>
    \E p \in Procs :
      /\ Applied(p)
      /\ call[p].outcome = "open" /\ call'[p].outcome = "committed"
      /\ Keys(utxos') \ Keys(utxos) \subseteq Keys(OutputRows(p))
      /\ Keys(utxos) \ Keys(utxos') \subseteq InputKeys(p)

\* A row of the loaded account and asset whose reservation has expired is
\* among the utxos returned.
ExpiredStillLoaded ==
  \A p \in Procs :
    Loaded(p) =>
      \A r \in utxos :
        /\ r.account_id = call[p].account /\ r.asset_id = call[p].asset
        /\ r.reserved_until < now
        => \E u \in LoadedSet(p) : KeyOfUTXO(u) = KeyOf(r)

\* C18: membership of the set changes only through ApplyTx; reservations,
\* loads and the passing of time add and remove no row, and a row reserved
\* until t is still returned by LoadUTXOs after t.
C18_MembershipOnlyByApplyTx ==
  [][MembershipStep]_vars /\ []ExpiredStillLoaded

\* C18's case: after a transaction added and removed rows, a row was reserved
\* until the last instant, time passed it, and LoadUTXOs returned the row.
C18_Witness ==
  \E p \in Procs :
    /\ Loaded(p) /\ call[p].at > MaxTime /\ now > MaxTime
    /\ \E u \in LoadedSet(p) : u.ResvExpires.instant = MaxTime
    /\ \E k \in AllKeys : spent[k] = 1

----------------------------------------------------------------------------
(* Claims about concurrent reservations (SpecResv) *)

\* The row of outpoint k among rows, as a set.
RowOf(rows, k) == {r \in rows : KeyOf(r) = k}

\* C20: SaveReservations overwrites reservedUntil whatever it was: a call
\* fails only on a storage failure, never because the row is reserved, and
\* after two committed calls on one row the row has the expiry of the call
\* that ran last.
C20_UnconditionalOverwrite ==
  /\ \A p \in Procs :
       call[p].op = "SaveReservations" =>
         /\ result[p].err # "" => call[p].fault = "update"
         /\ Reserved(p) =>
              \A r \in call[p].post :
                <<r.txid[2], r.index>> \in ReservedOutpoints(p) =>
                  r.reserved_until = call[p].exp
  /\ \A p, q \in Procs :
       /\ Reserved(p) /\ call[p].outcome = "committed"
       /\ Reserved(q) /\ call[q].outcome = "committed"
       /\ call[p].seq < call[q].seq
       => \A r \in utxos :
            <<r.txid[2], r.index>> \in
               ReservedOutpoints(p) \cap ReservedOutpoints(q) =>
              r.reserved_until = call[q].exp

\* C20's case: the second builder's expiry is earlier than the first's, which
\* had not passed, and lay in the past when it was written; the row has it.
C20_Witness ==
  \E p, q \in Procs :
    /\ Reserved(p) /\ call[p].outcome = "committed"
    /\ Reserved(q) /\ call[q].outcome = "committed"
    /\ call[p].seq < call[q].seq
    /\ call[q].exp < call[p].exp
    /\ call[q].exp < call[q].at /\ call[q].at <= call[p].exp
    /\ \E r \in utxos :
         /\ <<r.txid[2], r.index>> \in
              ReservedOutpoints(p) \cap ReservedOutpoints(q)
         /\ r.reserved_until = call[q].exp
    /\ \E r \in call[q].pre :
         /\ <<r.txid[2], r.index>> \in ReservedOutpoints(q)
         /\ r.reserved_until = call[p].exp

====
